---- MODULE Spec2Model ----
(***************************************************************************)
(* Model of matrix_project_capital/my_matrix_app:                          *)
(*   utils_library.py  counterclockwise_traversal, start_matrix_data,      *)
(*                     get_matrix                                          *)
(*   views.py          MatrixTraversalView.post                            *)
(*                                                                         *)
(* Python lists are TLA+ sequences; Python indices are 0-based and are     *)
(* kept 0-based in the model (PyGet adds 1 on access).  Text is a sequence *)
(* of one-character strings.                                               *)
(***************************************************************************)
EXTENDS Integers, Sequences, FiniteSets, TLC

VARIABLES
    \* ---- counterclockwise_traversal (utils_library.py:28-71)
    matrix,      \* the argument
    row_start, row_end, col_start, col_end,   \* the four bounds
    result,      \* the list being built
    reads,       \* the (row, col) index pairs evaluated by matrix[row][col]
    pc,          \* position in the function
    \* ---- MatrixTraversalView.post and the two core calls
    vpc,         \* position in post
    url,         \* request.data.get('url')
    doc,         \* the text the remote resource serves
    status,      \* response.status seen by get_matrix (-1: no response)
    raised,      \* the exception raised inside get_matrix's try block
    gm,          \* how get_matrix ended
    gm_matrix,   \* get_matrix's local `matrix` (line 94)
    calls,       \* the stages get_matrix went through
    log,         \* records written through logger.error
    sd,          \* how start_matrix_data ended
    saved,       \* rows created through Matrix.objects.create
    http         \* what post answered (or the exception that left it)

tvars == <<matrix, row_start, row_end, col_start, col_end, result, reads, pc>>
gvars == <<vpc, url, doc, status, raised, gm, gm_matrix, calls, log, sd, saved, http>>
vars == <<matrix, row_start, row_end, col_start, col_end, result, reads, pc,
          vpc, url, doc, status, raised, gm, gm_matrix, calls, log, sd, saved, http>>

\* Bounds of the grids the traversal is run on.
MaxRows == 6
MaxCols == 6
MaxJagged == 3

(***************************************************************************)
(* Python list indexing and range()                                        *)
(***************************************************************************)
\* s[i] raises IndexError unless -len(s) <= i < len(s)
PyIndexOK(s, i) == -Len(s) <= i /\ i < Len(s)

PyGet(s, i) == IF i >= 0 THEN s[i + 1] ELSE s[Len(s) + i + 1]

\* list(range(a, b))
RangeUp(a, b) == [k \in 1..(IF b > a THEN b - a ELSE 0) |-> a + k - 1]

\* list(range(a, b, -1))
RangeDown(a, b) == [k \in 1..(IF a > b THEN a - b ELSE 0) |-> a - k + 1]

\* matrix[row][col] for cell = <<row, col>>
CellOK(m, cell) == PyIndexOK(m, cell[1]) /\ PyIndexOK(PyGet(m, cell[1]), cell[2])

CellGet(m, cell) == PyGet(PyGet(m, cell[1]), cell[2])

(***************************************************************************)
(* The four passes of one loop iteration, as the index pairs each reads    *)
(***************************************************************************)
\* for row in range(row_start, row_end + 1): matrix[row][col_start]
UpCells(rs, re, cs) ==
    LET r == RangeUp(rs, re + 1) IN [k \in DOMAIN r |-> <<r[k], cs>>]

\* for col in range(col_start, col_end + 1): matrix[row_end][col]
LeftCells(re, cs, ce) ==
    LET r == RangeUp(cs, ce + 1) IN [k \in DOMAIN r |-> <<re, r[k]>>]

\* (mutation: the third pass taken unconditionally)
DownGuardAlways(cs, ce) == TRUE

\* if col_start <= col_end
DownGuard(cs, ce) == cs <= ce

\* for row in range(row_end, row_start - 1, -1): matrix[row][col_end]
DownCells(rs, re, ce) ==
    LET r == RangeDown(re, rs - 1) IN [k \in DOMAIN r |-> <<r[k], ce>>]

\* (mutation: the fourth pass taken unconditionally)
RightGuardAlways(rs, re) == TRUE

\* if row_start <= row_end
RightGuard(rs, re) == rs <= re

\* for col in range(col_end, col_start - 1, -1): matrix[row_start][col]
RightCells(rs, cs, ce) ==
    LET r == RangeDown(ce, cs - 1) IN [k \in DOMAIN r |-> <<rs, r[k]>>]

\* (mutation: `or` for `and` in the loop condition)
LoopGuardOr(rs, re, cs, ce) == rs <= re \/ cs <= ce

\* while row_start <= row_end and col_start <= col_end
LoopGuard(rs, re, cs, ce) == rs <= re /\ cs <= ce

\* The cells of a pass that are read before the first out-of-range one.
GoodPrefix(m, cells) ==
    LET bad == {k \in DOMAIN cells : ~CellOK(m, cells[k])}
        n == IF bad = {} THEN Len(cells)
             ELSE (CHOOSE k \in bad : \A j \in bad : k <= j) - 1
    IN SubSeq(cells, 1, n)

PassOK(m, cells) == \A k \in DOMAIN cells : CellOK(m, cells[k])

Values(m, cells) == [k \in DOMAIN cells |-> CellGet(m, cells[k])]

(***************************************************************************)
(* counterclockwise_traversal as a state machine, one action per pass      *)
(***************************************************************************)
\* A pass: result.append(matrix[row][col]) for each cell, in order; the first
\* out-of-range index raises IndexError and ends the function.
Pass(cells, nextpc) ==
    LET good == GoodPrefix(matrix, cells) IN
    /\ result' = result \o Values(matrix, good)
    /\ reads' = reads \o good
    /\ pc' = IF PassOK(matrix, cells) THEN nextpc ELSE "IndexError"

TStart ==
    /\ pc = "start"
    /\ IF matrix = <<>>
       THEN /\ pc' = "done"
            /\ result' = <<>>
            /\ UNCHANGED <<row_start, row_end, col_start, col_end>>
       ELSE /\ row_start' = 0
            /\ row_end' = Len(matrix) - 1
            /\ col_start' = 0
            /\ col_end' = Len(matrix[1]) - 1
            /\ result' = <<>>
            /\ pc' = "while"
    /\ UNCHANGED <<matrix, reads>>
    /\ UNCHANGED gvars

TWhile ==
    /\ pc = "while"
    /\ pc' = IF LoopGuard(row_start, row_end, col_start, col_end)
             THEN "up" ELSE "done"
    /\ UNCHANGED <<matrix, row_start, row_end, col_start, col_end, result, reads>>
    /\ UNCHANGED gvars

TUp ==
    /\ pc = "up"
    /\ Pass(UpCells(row_start, row_end, col_start), "left")
    /\ col_start' = IF PassOK(matrix, UpCells(row_start, row_end, col_start))
                    THEN col_start + 1 ELSE col_start
    /\ UNCHANGED <<matrix, row_start, row_end, col_end>>
    /\ UNCHANGED gvars

TLeft ==
    /\ pc = "left"
    /\ Pass(LeftCells(row_end, col_start, col_end), "down")
    /\ row_end' = IF PassOK(matrix, LeftCells(row_end, col_start, col_end))
                  THEN row_end - 1 ELSE row_end
    /\ UNCHANGED <<matrix, row_start, col_start, col_end>>
    /\ UNCHANGED gvars

TDown ==
    /\ pc = "down"
    /\ IF DownGuard(col_start, col_end)
       THEN /\ Pass(DownCells(row_start, row_end, col_end), "right")
            /\ col_end' = IF PassOK(matrix, DownCells(row_start, row_end, col_end))
                          THEN col_end - 1 ELSE col_end
       ELSE /\ pc' = "right"
            /\ UNCHANGED <<result, reads, col_end>>
    /\ UNCHANGED <<matrix, row_start, row_end, col_start>>
    /\ UNCHANGED gvars

TRight ==
    /\ pc = "right"
    /\ IF RightGuard(row_start, row_end)
       THEN /\ Pass(RightCells(row_start, col_start, col_end), "while")
            /\ row_start' = IF PassOK(matrix, RightCells(row_start, col_start, col_end))
                            THEN row_start + 1 ELSE row_start
       ELSE /\ pc' = "while"
            /\ UNCHANGED <<result, reads, row_start>>
    /\ UNCHANGED <<matrix, row_end, col_start, col_end>>
    /\ UNCHANGED gvars

(***************************************************************************)
(* The grids the traversal is run on: every rectangular grid of at most    *)
(* MaxRows rows and MaxCols columns, every list of at most MaxJagged rows  *)
(* of 1 to MaxJagged cells each (rectangular or not), cell (i, j)          *)
(* holding 10 * (i * len(matrix[0]) + j + 1), and the two grids of the     *)
(* examples.                                                               *)
(***************************************************************************)
RowLengths ==
    {[i \in 1..r |-> c] : r \in 0..MaxRows, c \in 0..MaxCols}
    \cup UNION {[1..n -> 1..MaxJagged] : n \in 0..MaxJagged}

GridOf(lens) ==
    [i \in DOMAIN lens |-> [j \in 1..lens[i] |-> 10 * ((i - 1) * lens[1] + j)]]

Grids == {GridOf(lens) : lens \in RowLengths} \cup {<< <<1, 2, 3>> >>, << <<5>> >>}

\* The web layer is not running while the traversal is examined on its own.
GIdle ==
    /\ vpc = "off" /\ url = "" /\ doc = <<>> /\ status = -1
    /\ raised = [kind |-> "none"] /\ gm = [kind |-> "none"]
    /\ gm_matrix = <<>> /\ calls = <<>> /\ log = <<>> /\ sd = [kind |-> "none"]
    /\ saved = <<>> /\ http = [kind |-> "none"]

\* Before the call: no argument yet.
TInit ==
    /\ matrix = <<>>
    /\ row_start = 0 /\ row_end = 0 /\ col_start = 0 /\ col_end = 0
    /\ result = <<>> /\ reads = <<>>
    /\ pc = "call"
    /\ GIdle

\* counterclockwise_traversal(g) is called.
TCall(g) ==
    /\ pc = "call"
    /\ matrix' = g
    /\ pc' = "start"
    /\ UNCHANGED <<row_start, row_end, col_start, col_end, result, reads>>
    /\ UNCHANGED gvars

TNext ==
    \/ (pc = "call" /\ \E g \in Grids : TCall(g))
    \/ TStart \/ TWhile \/ TUp \/ TLeft \/ TDown \/ TRight

SpecTrav == TInit /\ [][TNext]_vars

\* The function runs to its return or to the exception: no step is skipped.
FairTrav == SpecTrav /\ WF_vars(TNext)

(***************************************************************************)
(* Properties of counterclockwise_traversal                                *)
(***************************************************************************)
Rectangular(m) == \A i \in DOMAIN m : Len(m[i]) = Len(m[1])

NumRows(m) == Len(m)
NumCols(m) == IF m = <<>> THEN 0 ELSE Len(m[1])

Min2(a, b) == IF a <= b THEN a ELSE b

\* The ring a cell lies on (0 is the outer ring), and its place on that ring
\* counted counterclockwise from the ring's top-left corner: down the left
\* column, along the bottom row, up the right column, back along the top row.
RingOf(r, c, i, j) == Min2(Min2(i, j), Min2(r - 1 - i, c - 1 - j))

RingOffset(r, c, i, j) ==
    LET k == RingOf(r, c, i, j)
        top == k
        bottom == r - 1 - k
        left == k
        right == c - 1 - k
    IN  IF j = left THEN i - top
        ELSE IF i = bottom THEN (bottom - top) + (j - left)
        ELSE IF j = right THEN (bottom - top) + (right - left) + (bottom - i)
        ELSE 2 * (bottom - top) + (right - left) + (right - j)

RingBefore(r, c, a, b) ==
    \/ RingOf(r, c, a[1], a[2]) < RingOf(r, c, b[1], b[2])
    \/ /\ RingOf(r, c, a[1], a[2]) = RingOf(r, c, b[1], b[2])
       /\ RingOffset(r, c, a[1], a[2]) < RingOffset(r, c, b[1], b[2])

CellsOf(m) == (0..(NumRows(m) - 1)) \X (0..(NumCols(m) - 1))

\* The cells of a rectangular grid in counterclockwise ring order.
RingOrder(m) ==
    LET r == NumRows(m)
        c == NumCols(m)
        cells == CellsOf(m)
        rank(a) == Cardinality({b \in cells : RingBefore(r, c, b, a)})
    IN  [k \in 1..(r * c) |->
            CellGet(m, CHOOSE a \in cells : rank(a) = k - 1)]

Ref4x4 == << <<10, 20, 30, 40>>, <<50, 60, 70, 80>>,
             <<90, 100, 110, 120>>, <<130, 140, 150, 160>> >>

Ref4x4Traversal == <<10, 50, 90, 130, 140, 150, 160, 120,
                     80, 40, 30, 20, 60, 100, 110, 70>>

\* C1: on every non-empty rectangular grid the function returns, and what it
\* returns is the cells in counterclockwise ring order from the top-left
\* cell; the 4x4 reference grid gives the reference list and [[1,2,3]]
\* gives [1,2,3].
C1_RingOrder ==
    (matrix # <<>> /\ Rectangular(matrix)) =>
        /\ pc # "IndexError"
        /\ pc = "done" =>
            /\ result = RingOrder(matrix)
            /\ (matrix = Ref4x4 => result = Ref4x4Traversal)
            /\ (matrix = << <<1, 2, 3>> >> => result = <<1, 2, 3>>)

C1_Witness == pc = "done" /\ matrix = Ref4x4 /\ result = Ref4x4Traversal

\* C2: on every non-empty rectangular grid of r rows and c columns the
\* returned list has r*c elements and every cell position was read exactly
\* once, each read contributing the element at its place in the list.
C2_EachCellOnce ==
    (pc = "done" /\ matrix # <<>> /\ Rectangular(matrix)) =>
        /\ Len(result) = NumRows(matrix) * NumCols(matrix)
        /\ Len(reads) = Len(result)
        /\ \A k \in DOMAIN reads : result[k] = CellGet(matrix, reads[k])
        /\ \A a \in CellsOf(matrix) :
               Cardinality({k \in DOMAIN reads : reads[k] = a}) = 1

C2_Witness ==
    /\ pc = "done" /\ Rectangular(matrix)
    /\ NumRows(matrix) = 2 /\ NumCols(matrix) = 4 /\ Len(result) = 8

\* C9: on a non-empty grid whose rows differ in length the function
\* completes without an out-of-range access (IndexError).
C9_NoCrashOnJagged ==
    (matrix # <<>> /\ ~Rectangular(matrix)) => pc # "IndexError"

ReadsInside ==
    \A k \in DOMAIN reads :
        /\ 0 <= reads[k][1] /\ reads[k][1] < NumRows(matrix)
        /\ 0 <= reads[k][2] /\ reads[k][2] < NumCols(matrix)

ShrinkStep ==
    /\ (pc = "start" /\ matrix = <<>>) => (pc' = "done" /\ result' = <<>>)
    /\ (pc = "while" /\ pc' # "done") => pc' = "up"
    /\ pc = "up" => (col_start' = col_start + 1 /\ pc' = "left")
    /\ pc = "left" => (row_end' = row_end - 1 /\ pc' = "down")
    /\ pc \notin {"call", "start"} =>
          /\ row_start' >= row_start /\ col_start' >= col_start
          /\ row_end' <= row_end /\ col_end' <= col_end

\* C10: on a grid that is empty or rectangular the function returns without
\* raising: zero rows give the empty list at once, every index read lies in
\* 0 <= row < rows and 0 <= col < cols, every loop iteration moves col_start
\* and row_end inwards and no bound ever moves outwards, and the loop ends
\* with row_start > row_end or col_start > col_end.
C10_TotalOnRectangular ==
    /\ [](Rectangular(matrix) => (pc # "IndexError" /\ ReadsInside))
    /\ []((pc = "done" /\ matrix # <<>>) =>
              (row_start > row_end \/ col_start > col_end))
    /\ [][Rectangular(matrix) => ShrinkStep]_vars
    /\ ((pc = "start" /\ Rectangular(matrix)) ~> (pc = "done"))

C10_Witness ==
    /\ pc = "done" /\ Rectangular(matrix)
    /\ NumRows(matrix) = 3 /\ NumCols(matrix) = 3
    /\ Len(reads) = 9 /\ row_start > row_end

(***************************************************************************)
(* The whole of counterclockwise_traversal as one operator, for its call   *)
(* from get_matrix: the same passes, one loop iteration per unfolding.     *)
(***************************************************************************)
\* col_end after the third pass of an iteration
ColEndAfterDown(cs, ce) == IF DownGuard(cs + 1, ce) THEN ce - 1 ELSE ce

\* row_start after the fourth pass of an iteration
RowStartAfterRight(rs, re) == IF RightGuard(rs, re - 1) THEN rs + 1 ELSE rs

\* The cells one loop iteration reads, in order (lines 49-69).
IterationCells(rs, re, cs, ce) ==
    UpCells(rs, re, cs)
    \o LeftCells(re, cs + 1, ce)
    \o (IF DownGuard(cs + 1, ce) THEN DownCells(rs, re - 1, ce) ELSE <<>>)
    \o (IF RightGuard(rs, re - 1)
        THEN RightCells(rs, cs + 1, ColEndAfterDown(cs, ce)) ELSE <<>>)

RECURSIVE TraversalLoop(_, _, _, _, _, _)
RECURSIVE TraversalIteration(_, _, _, _, _, _, _)
TraversalIteration(m, rs, re, cs, ce, res, cells) ==
    IF PassOK(m, cells)
    THEN TraversalLoop(m, RowStartAfterRight(rs, re), re - 1, cs + 1,
                       ColEndAfterDown(cs, ce), res \o Values(m, cells))
    ELSE [ok |-> FALSE, result |-> res \o Values(m, GoodPrefix(m, cells))]

TraversalLoop(m, rs, re, cs, ce, res) ==
    IF LoopGuard(rs, re, cs, ce)
    THEN TraversalIteration(m, rs, re, cs, ce, res, IterationCells(rs, re, cs, ce))
    ELSE [ok |-> TRUE, result |-> res]

counterclockwise_traversal(m) ==
    IF m = <<>> THEN [ok |-> TRUE, result |-> <<>>]
    ELSE TraversalLoop(m, 0, Len(m) - 1, 0, Len(m[1]) - 1, <<>>)

(***************************************************************************)
(* Python str operations on text (a sequence of one-character strings)     *)
(***************************************************************************)
Whitespace == {" ", "\n", "\t", "\r"}

Digits == {"0", "1", "2", "3", "4", "5", "6", "7", "8", "9"}

DigitValue(c) ==
    CASE c = "0" -> 0 [] c = "1" -> 1 [] c = "2" -> 2 [] c = "3" -> 3
      [] c = "4" -> 4 [] c = "5" -> 5 [] c = "6" -> 6 [] c = "7" -> 7
      [] c = "8" -> 8 [] c = "9" -> 9

MinOf(S) == CHOOSE a \in S : \A k \in S : a <= k

MaxOf(S) == CHOOSE b \in S : \A k \in S : k <= b

\* str.strip(): leading and trailing whitespace removed
StripTo(t, keep) == IF keep = {} THEN <<>> ELSE SubSeq(t, MinOf(keep), MaxOf(keep))

Strip(t) == StripTo(t, {k \in DOMAIN t : t[k] \notin Whitespace})

\* str.split(sep) with a one-character separator: a left-to-right scan;
\* "".split(sep) is [""].
RECURSIVE SplitScan(_, _, _, _)
SplitScan(t, sep, cur, acc) ==
    IF t = <<>> THEN Append(acc, cur)
    ELSE IF Head(t) = sep THEN SplitScan(Tail(t), sep, <<>>, Append(acc, cur))
    ELSE SplitScan(Tail(t), sep, Append(cur, Head(t)), acc)

Split(t, sep) == SplitScan(t, sep, <<>>, <<>>)

\* (mutation: list[1:], the last field kept)
SliceFrom1(l) == IF Len(l) <= 1 THEN <<>> ELSE SubSeq(l, 2, Len(l))

\* list[1:-1]
Slice1m1(l) == IF Len(l) <= 2 THEN <<>> ELSE SubSeq(l, 2, Len(l) - 1)

RECURSIVE DecimalValue(_)
DecimalValue(ds) ==
    IF ds = <<>> THEN 0
    ELSE 10 * DecimalValue(SubSeq(ds, 1, Len(ds) - 1)) + DigitValue(ds[Len(ds)])

\* int() of a stripped text with its sign taken off
IntOfDigits(negative, ds) ==
    IF ds = <<>> \/ \E k \in DOMAIN ds : ds[k] \notin Digits
    THEN [ok |-> FALSE]
    ELSE [ok |-> TRUE,
          val |-> IF negative THEN 0 - DecimalValue(ds) ELSE DecimalValue(ds)]

IntOfStripped(t) ==
    IF t # <<>> /\ t[1] \in {"+", "-"}
    THEN IntOfDigits(t[1] = "-", Tail(t))
    ELSE IntOfDigits(FALSE, t)

\* int(field): surrounding whitespace is ignored, one sign is allowed, the
\* rest must be decimal digits; anything else raises ValueError.
PyInt(field) == IntOfStripped(Strip(field))

(***************************************************************************)
(* The parser: utils_library.py lines 22-24 and lines 93-94                *)
(***************************************************************************)
\* if row.strip()
KeepLine(row) == Strip(row) # <<>>

\* row.strip().split('|')[1:-1]
FieldsOf(row) == Slice1m1(Split(Strip(row), "|"))

\* if row   (second comprehension)
KeepRow(row) == row # <<>>

FieldsOfEach(kept) == [k \in DOMAIN kept |-> FieldsOf(kept[k])]

\* [row.strip().split('|')[1:-1] for row in text.strip().split('\n') if row.strip()]
InlineRows(text) == FieldsOfEach(SelectSeq(Split(Strip(text), "\n"), KeepLine))

\* matrix_text = response.text.strip();  the same comprehension over
\* matrix_text.strip().split('\n')
StartRows(text) ==
    FieldsOfEach(SelectSeq(Split(Strip(Strip(text)), "\n"), KeepLine))

\* All the fields of the rows, in the order int() meets them.
RECURSIVE Flatten(_)
Flatten(rows) == IF rows = <<>> THEN <<>> ELSE Head(rows) \o Flatten(Tail(rows))

IntOK(field) == PyInt(field).ok

\* The first field int() rejects.
FirstBad(fields) == Head(SelectSeq(fields, LAMBDA f : ~IntOK(f)))

IntKept(kept, fields) ==
    IF \A k \in DOMAIN fields : IntOK(fields[k])
    THEN [ok |-> TRUE,
          matrix |-> [i \in DOMAIN kept |->
                        [j \in DOMAIN kept[i] |-> PyInt(kept[i][j]).val]]]
    ELSE [ok |-> FALSE, field |-> FirstBad(fields)]

KeptRows(rows) == SelectSeq(rows, KeepRow)

\* [list(map(int, row)) for row in rows if row]: the matrix, or the first
\* field int() rejects.
IntRows(rows) == IntKept(KeptRows(rows), Flatten(KeptRows(rows)))

(***************************************************************************)
(* Exception classes: the classes get_matrix's except clauses name, the    *)
(* ones aiohttp, requests and the parser raise, and their base classes.    *)
(***************************************************************************)
Bases(c) ==
    CASE c = "Exception" -> {"BaseException"}
      [] c = "ValueError" -> {"Exception"}
      [] c = "LookupError" -> {"Exception"}
      [] c = "IndexError" -> {"LookupError"}
      [] c = "OSError" -> {"Exception"}
      [] c = "UnicodeDecodeError" -> {"ValueError"}
      [] c = "asyncio.TimeoutError" -> {"Exception"}
      [] c = "aiohttp.ClientError" -> {"Exception"}
      [] c = "aiohttp.ClientResponseError" -> {"aiohttp.ClientError"}
      [] c = "aiohttp.ClientPayloadError" -> {"aiohttp.ClientError"}
      [] c = "aiohttp.InvalidURL" -> {"aiohttp.ClientError", "ValueError"}
      [] c = "aiohttp.ClientConnectionError" -> {"aiohttp.ClientError"}
      [] c = "aiohttp.ClientOSError" -> {"aiohttp.ClientConnectionError", "OSError"}
      [] c = "aiohttp.ClientConnectorError" -> {"aiohttp.ClientOSError"}
      [] c = "aiohttp.ServerConnectionError" -> {"aiohttp.ClientConnectionError"}
      [] c = "aiohttp.ServerDisconnectedError" -> {"aiohttp.ServerConnectionError"}
      [] c = "aiohttp.ServerTimeoutError" ->
             {"aiohttp.ServerConnectionError", "asyncio.TimeoutError"}
      [] c = "requests.RequestException" -> {"OSError"}
      [] c = "requests.HTTPError" -> {"requests.RequestException"}
      [] c = "requests.ConnectionError" -> {"requests.RequestException"}
      [] c = "requests.Timeout" -> {"requests.RequestException"}
      [] OTHER -> {}

\* issubclass(c, d)
RECURSIVE IsSubclass(_, _)
IsSubclass(c, d) == c = d \/ \E b \in Bases(c) : IsSubclass(b, d)

Exc(c, m) == [kind |-> "exc", cls |-> c, msg |-> m]

Contains(msg, tok) == \E k \in DOMAIN msg : msg[k] = tok

(***************************************************************************)
(* get_matrix (utils_library.py:74-114)                                    *)
(***************************************************************************)
\* What the network gives one call: session.get(url) raises, or a response
\* arrives with a status, whose body response.text() returns or fails on.
Statuses == {200, 204, 404, 500, 503}

GetRaises == {"aiohttp.ClientConnectorError", "aiohttp.ClientResponseError",
              "aiohttp.ServerTimeoutError", "aiohttp.ServerDisconnectedError",
              "asyncio.TimeoutError", "aiohttp.InvalidURL"}

TextRaises == {"aiohttp.ClientPayloadError", "UnicodeDecodeError"}

AiohttpOutcomes ==
    {[kind |-> "raise", cls |-> c] : c \in GetRaises}
    \cup {[kind |-> "response", status |-> st, text |-> "ok"] : st \in Statuses}
    \cup {[kind |-> "response", status |-> 200, text |-> c] : c \in TextRaises}

\* (mutation: > for >=)
ServerErrorStatusAbove(st) == st > 500

\* if response.status >= 500
ServerErrorStatus(st) == st >= 500

\* if response.status != 200
UnexpectedStatus(st) == st # 200

\* f"Server error occurred while fetching matrix from {url}. Status code: {response.status}"
ServerErrorMessage(u, st) ==
    <<"Server error occurred while fetching matrix from", u,
      "Status code:", ToString(st)>>

\* f"Failed to fetch matrix from {url}. Status code: {response.status}"
StatusMessage(u, st) ==
    <<"Failed to fetch matrix from", u, "Status code:", ToString(st)>>

\* str() of the ValueError int() raises
IntMessage(field) == <<"invalid literal for int() with base 10:">> \o field

\* counterclockwise_traversal(matrix) and the return, line 96
TraverseParsed(o, m, t) ==
    [calls |-> <<"get", "text", "parse", "traversal">>,
     status |-> o.status, matrix |-> m,
     out |-> IF t.ok THEN [kind |-> "return", value |-> t.result]
             ELSE Exc("IndexError", <<"list index out of range">>)]

\* lines 93-96 once the body is read
ParseBody(o, parsed) ==
    IF parsed.ok
    THEN TraverseParsed(o, parsed.matrix, counterclockwise_traversal(parsed.matrix))
    ELSE [calls |-> <<"get", "text", "parse">>, status |-> o.status,
          matrix |-> <<>>,
          out |-> Exc("ValueError", IntMessage(parsed.field))]

\* The try block, lines 86-96.
TryBody(u, o, d) ==
    IF o.kind = "raise"
    THEN [calls |-> <<"get">>, status |-> -1, matrix |-> <<>>,
          out |-> Exc(o.cls, <<o.cls>>)]
    ELSE IF ServerErrorStatus(o.status)
    THEN [calls |-> <<"get">>, status |-> o.status, matrix |-> <<>>,
          out |-> Exc("ValueError", ServerErrorMessage(u, o.status))]
    ELSE IF UnexpectedStatus(o.status)
    THEN [calls |-> <<"get">>, status |-> o.status, matrix |-> <<>>,
          out |-> Exc("ValueError", StatusMessage(u, o.status))]
    ELSE IF o.text # "ok"
    THEN [calls |-> <<"get", "text">>, status |-> o.status, matrix |-> <<>>,
          out |-> Exc(o.text, <<o.text>>)]
    ELSE ParseBody(o, IntRows(InlineRows(d)))

\* (mutation: the final `except Exception` clause missing)
HandlersNoCatchAll ==
    << [cls |-> "aiohttp.ClientConnectionError", fmt |-> "connect"],
       [cls |-> "aiohttp.ClientResponseError", fmt |-> "response"],
       [cls |-> "aiohttp.ServerTimeoutError", fmt |-> "server_timeout"],
       [cls |-> "aiohttp.ServerDisconnectedError", fmt |-> "disconnected"],
       [cls |-> "asyncio.TimeoutError", fmt |-> "timeout"] >>

\* The except clauses, lines 97-114, in source order.
Handlers ==
    << [cls |-> "aiohttp.ClientConnectionError", fmt |-> "connect"],
       [cls |-> "aiohttp.ClientResponseError", fmt |-> "response"],
       [cls |-> "aiohttp.ServerTimeoutError", fmt |-> "server_timeout"],
       [cls |-> "aiohttp.ServerDisconnectedError", fmt |-> "disconnected"],
       [cls |-> "asyncio.TimeoutError", fmt |-> "timeout"],
       [cls |-> "Exception", fmt |-> "generic"] >>

\* The f-string each clause logs and raises.
HandlerMessage(fmt, u, e) ==
    CASE fmt = "connect" ->
            <<"Failed to connect to the server at", u, "Error:">> \o e.msg
      [] fmt = "response" ->
            <<"Received unexpected response from the server at", u, "Error:">>
            \o e.msg
      [] fmt = "server_timeout" ->
            <<"Server at", u, "timed out", "Error:">> \o e.msg
      [] fmt = "disconnected" ->
            <<"Connection to server at", u, "was unexpectedly disconnected",
              "Error:">> \o e.msg
      [] fmt = "timeout" ->
            <<"Connection timeout while fetching matrix from", u>>
      [] fmt = "generic" ->
            <<"An error occurred while fetching matrix from", u, "Error:">>
            \o e.msg

\* logger.error(message); raise ValueError(message)
LogAndRaise(m) ==
    [log |-> <<[level |-> "ERROR", msg |-> m]>>,
     gm |-> [kind |-> "raise", cls |-> "ValueError", msg |-> m]]

HandleBy(u, e, match) ==
    IF match = {}
    THEN [log |-> <<>>, gm |-> [kind |-> "raise", cls |-> e.cls, msg |-> e.msg]]
    ELSE LogAndRaise(HandlerMessage(Handlers[MinOf(match)].fmt, u, e))

\* The first except clause whose class the exception is an instance of logs
\* and raises ValueError; an exception no clause matches leaves unchanged.
Handle(u, e) ==
    HandleBy(u, e, {k \in DOMAIN Handlers : IsSubclass(e.cls, Handlers[k].cls)})

Ended(b, h) ==
    [calls |-> b.calls, status |-> b.status, matrix |-> b.matrix,
     raised |-> IF b.out.kind = "exc" THEN b.out ELSE [kind |-> "none"],
     log |-> h.log, gm |-> h.gm]

EndOfTry(u, b) ==
    Ended(b, IF b.out.kind = "exc" THEN Handle(u, b.out)
             ELSE [log |-> <<>>, gm |-> b.out])

get_matrix(u, o, d) == EndOfTry(u, TryBody(u, o, d))

(***************************************************************************)
(* start_matrix_data (utils_library.py:12-25)                              *)
(***************************************************************************)
RequestsRaises == {"requests.ConnectionError", "requests.Timeout"}

RequestsOutcomes ==
    {[kind |-> "raise", cls |-> c] : c \in RequestsRaises}
    \cup {[kind |-> "response", status |-> st] : st \in Statuses}

\* response.raise_for_status(): HTTPError for a 4xx or 5xx status
RaiseForStatus(st) == 400 <= st /\ st < 600

\* lines 24-25
StartParsed(parsed) ==
    IF parsed.ok THEN [kind |-> "return", value |-> parsed.matrix]
    ELSE [kind |-> "raise", cls |-> "ValueError",
          msg |-> IntMessage(parsed.field)]

start_matrix_data(o, d) ==
    IF o.kind = "raise"
    THEN [kind |-> "raise", cls |-> o.cls, msg |-> <<o.cls>>]
    ELSE IF RaiseForStatus(o.status)
    THEN [kind |-> "raise", cls |-> "requests.HTTPError",
          msg |-> <<ToString(o.status), "Error">>]
    ELSE StartParsed(IntRows(StartRows(d)))

(***************************************************************************)
(* MatrixTraversalView.post (views.py:16-37)                               *)
(***************************************************************************)
BadRequest(body) == [kind |-> "response", status |-> 400, body |-> body]

Ok(body) == [kind |-> "response", status |-> 200, body |-> body]

\* An exception post does not catch leaves the handler.
Escapes(c) == [kind |-> "exception", cls |-> c]

\* except ValueError as e
ViewCatches(c) == IsSubclass(c, "ValueError")

\* url = request.data.get('url'); if not url: return 400
VPost(u) ==
    /\ vpc = "idle"
    /\ url' = u
    /\ IF u = ""
       THEN /\ http' = BadRequest(<<"source_url is required">>)
            /\ vpc' = "responded"
       ELSE /\ http' = http
            /\ vpc' = "get_matrix"
    /\ UNCHANGED <<doc, status, raised, gm, gm_matrix, calls, log, sd, saved>>
    /\ UNCHANGED tvars

\* What post does with what get_matrix gave or raised.
AfterGetMatrix(r) ==
    /\ status' = r.status
    /\ raised' = r.raised
    /\ gm' = r.gm
    /\ gm_matrix' = r.matrix
    /\ calls' = r.calls
    /\ log' = log \o r.log
    /\ IF r.gm.kind = "return"
       THEN /\ vpc' = "start_matrix_data"
            /\ http' = http
       ELSE /\ vpc' = "responded"
            /\ http' = IF ViewCatches(r.gm.cls) THEN BadRequest(r.gm.msg)
                       ELSE Escapes(r.gm.cls)

\* travers_matrix = async_to_sync(get_matrix)(url)
VGetMatrix(o) ==
    /\ vpc = "get_matrix"
    /\ AfterGetMatrix(get_matrix(url, o, doc))
    /\ UNCHANGED <<url, doc, sd, saved>>
    /\ UNCHANGED tvars

\* What post does with what start_matrix_data gave or raised.
AfterStartMatrixData(r) ==
    /\ sd' = r
    /\ IF r.kind = "return"
       THEN /\ saved' = Append(saved, [start_matrix |-> r.value,
                                       matrix_data |-> gm.value])
            /\ http' = Ok(gm.value)
       ELSE /\ saved' = saved
            /\ http' = IF ViewCatches(r.cls) THEN BadRequest(r.msg)
                       ELSE Escapes(r.cls)

\* start_data = start_matrix_data(url); Matrix.objects.create(...);
\* return Response({'data': travers_matrix}, 200)
VStartMatrixData(o) ==
    /\ vpc = "start_matrix_data"
    /\ AfterStartMatrixData(start_matrix_data(o, doc))
    /\ vpc' = "responded"
    /\ UNCHANGED <<url, doc, status, raised, gm, gm_matrix, calls, log>>
    /\ UNCHANGED tvars

(***************************************************************************)
(* The documents a remote resource serves                                  *)
(***************************************************************************)
\* Every text of at most MaxText characters over Alphabet, and every text of
\* at most MaxLines lines drawn from SampleLines, and the reference document.
MaxText == 4
MaxLines == 3

Alphabet == {"|", "\n", " ", "1", "x"}

CharDocs == UNION {[1..n -> Alphabet] : n \in 0..MaxText}

SampleLines ==
    { <<"|", "1", "|", "2", "|">>,                \* |1|2|
      <<"|", "3", "|", "4", "|">>,                \* |3|4|
      <<" ", "|", "5", "|", " ">>,                \*  |5|   (padded)
      <<"|", "-", "8", "|", " ", "9", " ", "|">>, \* |-8| 9 |
      <<"|", "6", "|", "x", "|">>,                \* |6|x|
      <<"x", "|", "7", "|", "y">>,                \* x|7|y
      <<"a", "b", "c">>,                          \* abc
      <<"|", "|">>,                               \* ||
      <<" ", "\r">>,                              \* blank
      <<>> }                                      \* empty

RECURSIVE JoinLines(_)
JoinLines(ls) ==
    IF ls = <<>> THEN <<>>
    ELSE IF Len(ls) = 1 THEN ls[1]
    ELSE ls[1] \o <<"\n">> \o JoinLines(Tail(ls))

LineDocs == {JoinLines(ls) : ls \in UNION {[1..n -> SampleLines] : n \in 0..MaxLines}}

\* |10|20|30|40| ... |130|140|150|160|, the document of main()'s test
RefDoc ==
    <<"|", "1", "0", "|", "2", "0", "|", "3", "0", "|", "4", "0", "|", "\n",
      "|", "5", "0", "|", "6", "0", "|", "7", "0", "|", "8", "0", "|", "\n",
      "|", "9", "0", "|", "1", "0", "0", "|", "1", "1", "0", "|", "1", "2", "0", "|", "\n",
      "|", "1", "3", "0", "|", "1", "4", "0", "|", "1", "5", "0", "|", "1", "6", "0", "|", "\n">>

Docs == CharDocs \cup LineDocs \cup {RefDoc}

SourceUrl == "https://example.org/matrix.txt"

\* What a request carries as 'url': a locator, or nothing.
RequestUrls == {SourceUrl, ""}

TIdle ==
    /\ matrix = <<>> /\ row_start = 0 /\ row_end = 0 /\ col_start = 0
    /\ col_end = 0 /\ result = <<>> /\ reads = <<>> /\ pc = "off"

\* One request: the resource serves the same text to both retrievals made
\* for it; status and transport failures are drawn anew for each retrieval.
Init ==
    /\ vpc = "idle" /\ url = "" /\ doc \in Docs /\ status = -1
    /\ raised = [kind |-> "none"] /\ gm = [kind |-> "none"]
    /\ gm_matrix = <<>> /\ calls = <<>> /\ log = <<>> /\ sd = [kind |-> "none"]
    /\ saved = <<>> /\ http = [kind |-> "none"]
    /\ TIdle

Next ==
    \/ \E u \in RequestUrls : VPost(u)
    \/ \E o \in AiohttpOutcomes : VGetMatrix(o)
    \/ \E o \in RequestsOutcomes : VStartMatrixData(o)

Spec == Init /\ [][Next]_vars

(***************************************************************************)
(* Properties of get_matrix, start_matrix_data and post                    *)
(***************************************************************************)
GenericText == "An error occurred while fetching matrix from"

ServerErrorText == "Server error occurred while fetching matrix from"

\* C3: get_matrix ends by returning the traversal of the parsed grid, or by
\* raising ValueError with the url in its message; it raises exactly when
\* something was raised inside it, and then one ERROR record carrying the
\* same message (url included) was logged; a return logs nothing.
C3_NormalizedOutcome ==
    gm.kind # "none" =>
        /\ gm.kind \in {"return", "raise"}
        /\ (raised.kind = "exc") <=> (gm.kind = "raise")
        /\ gm.kind = "raise" =>
              /\ gm.cls = "ValueError"
              /\ Contains(gm.msg, url)
              /\ log = <<[level |-> "ERROR", msg |-> gm.msg]>>
        /\ gm.kind = "return" =>
              /\ log = <<>>
              /\ gm.value = counterclockwise_traversal(gm_matrix).result

C3_Witness ==
    /\ gm.kind = "raise" /\ raised.kind = "exc" /\ raised.cls = "IndexError"
    /\ gm.cls = "ValueError" /\ Len(log) = 1

\* C4: a server-side timeout is answered with the "timed out" message and a
\* dropped connection with the "disconnected" message.
C4_OwnMessage ==
    (gm.kind = "raise" /\ raised.kind = "exc") =>
        /\ raised.cls = "aiohttp.ServerTimeoutError" =>
              Contains(gm.msg, "timed out")
        /\ raised.cls = "aiohttp.ServerDisconnectedError" =>
              Contains(gm.msg, "was unexpectedly disconnected")

\* C5: a status >= 500 gives a ValueError whose message says server error and
\* holds the status code; any other status but 200 gives a ValueError whose
\* message holds the status code; the body is read exactly when the status
\* is 200.
C5_StatusFailures ==
    (gm.kind # "none" /\ status # -1) =>
        /\ status >= 500 =>
              /\ gm.kind = "raise" /\ gm.cls = "ValueError"
              /\ Contains(gm.msg, ServerErrorText)
              /\ Contains(gm.msg, ToString(status))
        /\ (status < 500 /\ status # 200) =>
              /\ gm.kind = "raise" /\ gm.cls = "ValueError"
              /\ Contains(gm.msg, ToString(status))
        /\ Contains(calls, "text") <=> status = 200

C5_Witness ==
    /\ status = 503 /\ gm.kind = "raise"
    /\ Contains(gm.msg, ServerErrorText) /\ Contains(gm.msg, "503")

\* A text that reads as an integer: digits, after at most one sign, with
\* nothing but whitespace around them.
IsIntegerText(f) ==
    \E a \in DOMAIN f : \E b \in a..Len(f) :
        /\ f[b] \in Digits
        /\ \A k \in (a + 1)..b : f[k] \in Digits
        /\ f[a] \in Digits \cup (IF a < b THEN {"+", "-"} ELSE {})
        /\ \A k \in DOMAIN f : (k < a \/ k > b) => f[k] \in Whitespace

\* The lines of a text, by the places of its line breaks.
LineBreaks(d) == {0, Len(d) + 1} \cup {k \in DOMAIN d : d[k] = "\n"}

LineStarts(d) == LineBreaks(d) \ {Len(d) + 1}

LineEnd(d, a) == MinOf({b \in LineBreaks(d) : b > a})

NthOf(S, n) == CHOOSE x \in S : Cardinality({y \in S : y < x}) = n - 1

NonBlank(d, a) == \E k \in (a + 1)..(LineEnd(d, a) - 1) : d[k] \notin Whitespace

Delims(d, a) == {k \in (a + 1)..(LineEnd(d, a) - 1) : d[k] = "|"}

\* The text between the n-th and the (n+1)-th delimiter of the line at a.
Between(d, a, n) ==
    SubSeq(d, NthOf(Delims(d, a), n) + 1, NthOf(Delims(d, a), n + 1) - 1)

\* The lines that give a row: non-blank, and with a field left once the
\* first and the last delimiter-split field are dropped.
RowStarts(d) ==
    {a \in LineStarts(d) : NonBlank(d, a) /\ Cardinality(Delims(d, a)) >= 2}

AllKeptFieldsInt(d) ==
    \A a \in RowStarts(d) : \A n \in 1..(Cardinality(Delims(d, a)) - 1) :
        IsIntegerText(Between(d, a, n))

RowAt(d, a) ==
    [n \in 1..(Cardinality(Delims(d, a)) - 1) |-> PyInt(Between(d, a, n)).val]

ExpectedGrid(d) ==
    [i \in 1..Cardinality(RowStarts(d)) |-> RowAt(d, NthOf(RowStarts(d), i))]

\* A field of a line in the sense of the document format: a piece between,
\* before or after delimiters, the empty piece before the opening delimiter
\* and after the closing one not counting as a field.
HasNonIntegerField(d) ==
    \E a \in LineStarts(d) :
        /\ NonBlank(d, a)
        /\ \E n \in 1..Len(Split(Strip(SubSeq(d, a + 1, LineEnd(d, a) - 1)), "|")) :
              /\ ~IsIntegerText(Split(Strip(SubSeq(d, a + 1, LineEnd(d, a) - 1)), "|")[n])
              /\ ~(/\ Split(Strip(SubSeq(d, a + 1, LineEnd(d, a) - 1)), "|")[n] = <<>>
                   /\ n \in {1, Len(Split(Strip(SubSeq(d, a + 1, LineEnd(d, a) - 1)), "|"))})

\* C6: when some field of some non-blank line of the body is not an integer,
\* get_matrix fails with the generic ValueError; no such field is dropped so
\* that a traversal is returned.
C6_NonNumericFieldFails ==
    (Contains(calls, "parse") /\ HasNonIntegerField(doc)) =>
        /\ gm.kind = "raise" /\ gm.cls = "ValueError"
        /\ Contains(gm.msg, GenericText)

\* C7: get_matrix and start_matrix_data fail with ValueError only, so post
\* answers every failure of either with its 400 response.
C7_UniformFailure ==
    /\ gm.kind = "raise" => gm.cls = "ValueError"
    /\ sd.kind = "raise" => sd.cls = "ValueError"
    /\ (vpc = "responded" /\ (gm.kind = "raise" \/ sd.kind = "raise")) =>
          (http.kind = "response" /\ http.status = 400)

\* C8: when every field left after dropping the first and last delimiter-
\* split field of each line is an integer, the inline parse of get_matrix
\* and start_matrix_data both build the grid with one row per non-blank line
\* that has a field left, rows in line order, fields in order.
C8_ParsedGrid ==
    /\ (Contains(calls, "parse") /\ AllKeptFieldsInt(doc)) =>
          /\ Contains(calls, "traversal")
          /\ gm_matrix = ExpectedGrid(doc)
    /\ sd.kind = "return" => sd.value = ExpectedGrid(doc)
    /\ (sd.kind = "raise" /\ sd.cls = "ValueError") => ~AllKeptFieldsInt(doc)

C8_Witness ==
    /\ doc = <<"a", "b", "c", "\n", "|", "1", "|", "2", "|", "\n", " ", "\r">>
    /\ gm_matrix = << <<1, 2>> >>
    /\ sd.kind = "return" /\ sd.value = << <<1, 2>> >>

====
